---------------------------- MODULE Spec2Model ----------------------------
(***************************************************************************)
(* StayKo: the Home listing view's filter engine (HomeScreen.tsx           *)
(* filterProperties), the favorites service (lib/favorites.ts) and the     *)
(* views that keep a local copy of the user's favorites (HomeScreen.tsx,   *)
(* SearchScreen.tsx), against a model of the remote store; the load        *)
(* sequences of the listing views (Home, Search, Map, MyProperties), the   *)
(* confirmed removal of the favorites-listing view, and the store's own    *)
(* search (lib/properties.ts searchProperties); the markers of the map     *)
(* view's embedded page (MapScreen.tsx updatePropertyMarkers) and the      *)
(* image index of the Home view's detail modal (openPropertyModal,         *)
(* nextImage, prevImage).  A state variable of a view holds what its       *)
(* setter was last called with.                                            *)
(*                                                                         *)
(* JavaScript strings are sequences of one-character strings, so that      *)
(* trim, toLowerCase, includes and parseFloat are computed rather than     *)
(* assumed.  An optional (nullable) column is the empty sequence when it   *)
(* is null and a one-element sequence holding the value otherwise.         *)
(***************************************************************************)
EXTENDS Integers, Sequences, FiniteSets, Bags, TLC

VARIABLES
    \* ---- HomeScreen.tsx: filter state -----------------------------------
    properties,          \* useState<Property[]>          (line 25)
    filteredProperties,  \* useState<Property[]>          (line 26)
    searchQuery,         \* useState('')                  (line 35)
    selectedType,        \* useState('all')               (line 36)
    minPrice,            \* useState('')                  (line 37)
    maxPrice,            \* useState('')                  (line 38)
    renderError,         \* an exception escaped the filter effect
    \* ---- the remote store and the session -------------------------------
    user,                \* supabase.auth.getUser(): None or Some(user id)
    favRows,             \* the user's user_favorites rows: property ids, oldest first
    propRows,            \* ids of the rows of the properties table
    photoRows,           \* property_photos: the photo urls of each property,
                         \* oldest first
    \* ---- calls in flight ------------------------------------------------
    requests,            \* the favorites-service calls that have not returned (a bag)
                         \* to their handler yet
    \* ---- HomeScreen.tsx / SearchScreen.tsx: favorites state --------------
    favoritePropertyIds, \* HomeScreen useState<string[]>    (line 42)
    favoriteProperties,  \* SearchScreen useState<Property[]> (line 25)
    unhandled,           \* an exception escaped a handler
    \* ---- history, read by the properties only ---------------------------
    last,                \* the call whose handler went past its await in the
                         \* step just taken, and how the call had ended
    pair,                \* two toggles of one property in sequence, alone
    sync,                \* whether the favorites have stopped changing and a
                         \* resync made after that has been applied
    \* ---- a listing view and its loads ----------------------------------
    view,                \* the listing view shown: home | search | map | mine
    mounted,             \* the view's component is mounted
    loads,               \* the load sequences that have not ended (a bag)
    propertyPhotos,      \* useState<{[key: string]: string[]}>  (HomeScreen
                         \* line 27, SearchScreen 26, MapScreen 17)
    alert,               \* the confirmation dialog shown: None or Some(id)
    \* ---- MapScreen.tsx: the embedded map (the page of lines 231-422) -----
    mapReady,            \* the page has loaded and initMap has run
    markers,             \* propertyMarkers: the ids of the properties that
                         \* have a marker on the map, in order (line 305)
    \* ---- HomeScreen.tsx: the detail modal ------------------------------
    selectedProperty,    \* useState<Property | null>: None or Some(id) (line 31)
    currentImageIndex    \* useState(0), a JavaScript number       (line 32)

filterVars == <<properties, filteredProperties, searchQuery, selectedType,
                minPrice, maxPrice, renderError>>

storeVars == <<user, favRows, propRows, photoRows>>

favVars == <<requests, favoritePropertyIds, favoriteProperties, unhandled>>

historyVars == <<last, pair>>

mapVars == <<mapReady, markers>>

modalVars == <<selectedProperty, currentImageIndex>>

viewVars == <<view, mounted, loads, propertyPhotos, alert, mapVars, modalVars>>

vars == <<filterVars, storeVars, favVars, historyVars, sync, viewVars>>

-----------------------------------------------------------------------------
(* Bounds *)

\* longest property list a load publishes
MaxProps == 3

\* favorites-service calls in flight at one time
MaxInflight == 2

\* load sequences of a view in flight at one time
MaxLoads == 2

-----------------------------------------------------------------------------
(* JavaScript strings *)

None == <<>>
Some(v) == <<v>>
IsNull(opt) == opt = <<>>

Str0 == <<>>

IsWhiteSpace(c) == c = " "

ToLowerChar(c) ==
    CASE c = "A" -> "a"
      [] c = "B" -> "b"
      [] c = "C" -> "c"
      [] OTHER   -> c

\* String.prototype.toLowerCase
ToLowerCase(s) == [i \in 1..Len(s) |-> ToLowerChar(s[i])]

RECURSIVE TrimStart(_)
TrimStart(s) ==
    IF s # <<>> /\ IsWhiteSpace(Head(s)) THEN TrimStart(Tail(s)) ELSE s

RECURSIVE TrimEnd(_)
TrimEnd(s) ==
    IF s # <<>> /\ IsWhiteSpace(s[Len(s)])
    THEN TrimEnd(SubSeq(s, 1, Len(s) - 1))
    ELSE s

\* String.prototype.trim
Trim(s) == TrimEnd(TrimStart(s))

\* String.prototype.includes
Includes(hay, needle) ==
    \E i \in 0..(Len(hay) - Len(needle)) :
        SubSeq(hay, i + 1, i + Len(needle)) = needle

\* a string in a condition: the empty string is falsy
Truthy(s) == s # <<>>


-----------------------------------------------------------------------------
(* JavaScript numbers, as far as the price filter uses them: a finite      *)
(* integer, NaN, +Infinity or -Infinity.  The inputs drawn below hold no   *)
(* fraction and no exponent.                                               *)

Num(n) == [kind |-> "num", val |-> n]
NaN    == [kind |-> "nan", val |-> 0]
PosInf == [kind |-> "inf", val |-> 0]
NegInf == [kind |-> "ninf", val |-> 0]

DigitChars == {"0", "1", "2", "3", "4", "5", "6", "7", "8", "9"}

DigitVal(c) ==
    CASE c = "0" -> 0 [] c = "1" -> 1 [] c = "2" -> 2 [] c = "3" -> 3
      [] c = "4" -> 4 [] c = "5" -> 5 [] c = "6" -> 6 [] c = "7" -> 7
      [] c = "8" -> 8 [] c = "9" -> 9

RECURSIVE DigitsPrefix(_)
DigitsPrefix(s) ==
    IF s # <<>> /\ Head(s) \in DigitChars
    THEN <<Head(s)>> \o DigitsPrefix(Tail(s))
    ELSE <<>>

RECURSIVE DigitsValue(_)
DigitsValue(ds) ==
    IF ds = <<>> THEN 0
    ELSE 10 * DigitsValue(SubSeq(ds, 1, Len(ds) - 1)) + DigitVal(ds[Len(ds)])

InfinityLiteral == <<"I", "n", "f", "i", "n", "i", "t", "y">>

StartsWith(s, p) == Len(s) >= Len(p) /\ SubSeq(s, 1, Len(p)) = p

\* parseFloat: leading white space is skipped, then an optional sign, then
\* "Infinity" or the longest run of digits; anything after it is ignored;
\* no digits at all gives NaN
ParseFloat(s) ==
    LET t      == TrimStart(s)
        signed == t # <<>> /\ Head(t) \in {"+", "-"}
        neg    == t # <<>> /\ Head(t) = "-"
        u      == IF signed THEN Tail(t) ELSE t
        ds     == DigitsPrefix(u)
    IN  IF StartsWith(u, InfinityLiteral) THEN (IF neg THEN NegInf ELSE PosInf)
        ELSE IF ds = <<>> THEN NaN
        ELSE Num(IF neg THEN 0 - DigitsValue(ds) ELSE DigitsValue(ds))

\* isNaN forgotten: every parsed bound is applied
IsNaN_Never(n) == FALSE

IsNaN(n) == n.kind = "nan"

\* > written for >=
NumGte_Strict(price, n) ==
    CASE n.kind = "num"  -> price > n.val
      [] n.kind = "inf"  -> FALSE
      [] n.kind = "ninf" -> TRUE
      [] n.kind = "nan"  -> FALSE

\* price >= n and price <= n for a finite price; every comparison with NaN
\* is false
NumGte(price, n) ==
    CASE n.kind = "num"  -> price >= n.val
      [] n.kind = "inf"  -> FALSE
      [] n.kind = "ninf" -> TRUE
      [] n.kind = "nan"  -> FALSE

NumLte(price, n) ==
    CASE n.kind = "num"  -> price <= n.val
      [] n.kind = "inf"  -> TRUE
      [] n.kind = "ninf" -> FALSE
      [] n.kind = "nan"  -> FALSE

-----------------------------------------------------------------------------
(* The properties table (properties-schema.sql, properties-status-update)  *)

PropertyTypes == {"rent", "sale", "boarding"}

Columns ==
    {"id", "user_id", "type", "title", "description", "price", "location",
     "latitude", "longitude", "contact_name", "contact_number",
     "contact_email", "status", "created_at", "updated_at"}

\* latitude and longitude (schema lines 13-14: two nullable columns) of the
\* rows that can exist: a row on the equator, a row with both set, a row
\* with the latitude alone, rows with neither
Coordinates ==
    [id \in 1..5 |->
        CASE id = 1 -> [latitude |-> Some(0), longitude |-> Some(5)]
          [] id = 2 -> [latitude |-> Some(7), longitude |-> Some(3)]
          [] id = 3 -> [latitude |-> Some(4), longitude |-> None]
          [] OTHER  -> [latitude |-> None,    longitude |-> None]]

\* a row of the table; the columns no operation of the model reads hold one
\* fixed value
Row(id, type, title, description, price, location) ==
    [id |-> id, user_id |-> "owner", type |-> type, title |-> title,
     description |-> description, price |-> price, location |-> location,
     latitude |-> Coordinates[id].latitude,
     longitude |-> Coordinates[id].longitude, contact_name |-> None,
     contact_number |-> None, contact_email |-> None, status |-> "Available",
     created_at |-> 10 - id, updated_at |-> 10 - id]

\* the rows that can exist, newest first (the order every listing query asks
\* for: created_at descending)
Catalogue ==
    << Row(1, "rent",     <<"A", "b">>,      None,                1, Some(<<"c">>)),
       Row(2, "sale",     <<"b">>,           Some(<<"a">>),       3, None),
       Row(3, "boarding", <<"c">>,           Some(<<>>),          2, Some(<<"a", " ", "B">>)),
       Row(4, "rent",     <<"B", " ", "a">>, Some(<<"A", "b">>),  0, None),
       Row(5, "sale",     <<"a", "b">>,      None,                2, Some(<<"A", "b">>)) >>

PropertyIds == 1..Len(Catalogue)

\* the rows with an id in ids, in table order
RECURSIVE RowsUpTo(_, _)
RowsUpTo(ids, n) ==
    IF n = 0 THEN <<>>
    ELSE IF n \in ids THEN Append(RowsUpTo(ids, n - 1), Catalogue[n])
    ELSE RowsUpTo(ids, n - 1)

Rows(ids) == RowsUpTo(ids, Len(Catalogue))

\* property_photos as it is at first: the urls of each property's photos,
\* oldest first
PhotoTable ==
    [id \in PropertyIds |->
        CASE id = 1 -> <<"u1">>
          [] id = 2 -> <<"u2", "u3">>
          [] OTHER  -> <<>>]

\* what a listing query can return: the rows existing at the time
PropertyLists ==
    {Rows(ids) : ids \in {s \in SUBSET PropertyIds : Cardinality(s) <= MaxProps}}

-----------------------------------------------------------------------------
(* HomeScreen.tsx filterProperties (lines 95-128)                          *)

\* Array.prototype.filter: the elements list[i] with keep[i], in order
RECURSIVE ArrayFilterUpTo(_, _, _)
ArrayFilterUpTo(list, keep, n) ==
    IF n = 0 THEN <<>>
    ELSE IF keep[n] THEN Append(ArrayFilterUpTo(list, keep, n - 1), list[n])
    ELSE ArrayFilterUpTo(list, keep, n - 1)

\* a removal loop that splices while it walks forward: the element after a
\* removed one is never tested
RECURSIVE SpliceSkipFrom(_, _, _)
SpliceSkipFrom(list, keep, i) ==
    IF i > Len(list) THEN <<>>
    ELSE IF keep[i] THEN <<list[i]>> \o SpliceSkipFrom(list, keep, i + 1)
    ELSE (IF i + 1 <= Len(list) THEN <<list[i + 1]>> ELSE <<>>)
         \o SpliceSkipFrom(list, keep, i + 2)

ArrayFilter_SpliceSkip(list, keep) == SpliceSkipFrom(list, keep, 1)

\* the kept elements collected with unshift instead of push
RECURSIVE ArrayFilter_Unshift(_, _)
ArrayFilter_Unshift(list, keep) ==
    IF list = <<>> THEN <<>>
    ELSE LET rest == ArrayFilter_Unshift(Tail(list), [i \in 1..(Len(list) - 1) |-> keep[i + 1]])
         IN  IF keep[1] THEN Append(rest, Head(list)) ELSE rest

ArrayFilter(list, keep) == ArrayFilterUpTo(list, keep, Len(list))

\* field.toLowerCase().includes(query.toLowerCase()) on a string that is
\* there
FieldIncludes(field, query) == Includes(ToLowerCase(field), ToLowerCase(query))

\* field?.toLowerCase().includes(...): undefined, which is falsy, when the
\* field is null
OptFieldIncludes(opt, query) ==
    IF IsNull(opt) THEN FALSE ELSE FieldIncludes(opt[1], query)

\* a plain member access where the code has an optional chain
DerefThrows_NoOptionalChain(isNull, optionalChain) == isNull

\* whether reading a member of the value throws a TypeError: it does on null
\* unless the access is an optional chain (?.)
DerefThrows(isNull, optionalChain) == isNull /\ ~optionalChain

\* the callback of lines 100-104: the query is the state's searchQuery, as
\* typed
SearchMatch(property, query) ==
    \/ FieldIncludes(property.title, query)
    \/ OptFieldIncludes(property.description, query)
    \/ OptFieldIncludes(property.location, query)

\* whether the callback of lines 100-104 throws on this property; || stops
\* at its first truthy operand
SearchMatchThrows(property, query) ==
    \/ DerefThrows(FALSE, FALSE)            \* title is NOT NULL (schema line 9)
    \/ /\ ~FieldIncludes(property.title, query)
       /\ \/ DerefThrows(IsNull(property.description), TRUE)
          \/ /\ ~OptFieldIncludes(property.description, query)
             /\ DerefThrows(IsNull(property.location), TRUE)

\* lines 98-105
SearchFilter(list, query) ==
    IF Truthy(Trim(query))
    THEN ArrayFilter(list, [i \in 1..Len(list) |-> SearchMatch(list[i], query)])
    ELSE list

\* the test for 'all' forgotten
TypeFilter_NoAll(list, type) ==
    ArrayFilter(list, [i \in 1..Len(list) |-> list[i].type = type])

\* lines 107-110
TypeFilter(list, type) ==
    IF type # "all"
    THEN ArrayFilter(list, [i \in 1..Len(list) |-> list[i].type = type])
    ELSE list

\* lines 113-118
MinPriceFilter(list, minInput) ==
    IF Truthy(minInput)
    THEN LET min == ParseFloat(minInput)
         IN  IF ~IsNaN(min)
             THEN ArrayFilter(list, [i \in 1..Len(list) |-> NumGte(list[i].price, min)])
             ELSE list
    ELSE list

\* lines 120-125
MaxPriceFilter(list, maxInput) ==
    IF Truthy(maxInput)
    THEN LET max == ParseFloat(maxInput)
         IN  IF ~IsNaN(max)
             THEN ArrayFilter(list, [i \in 1..Len(list) |-> NumLte(list[i].price, max)])
             ELSE list
    ELSE list

\* the list filterProperties hands to setFilteredProperties (line 127)
filterProperties(props, query, type, minInput, maxInput) ==
    MaxPriceFilter(MinPriceFilter(TypeFilter(SearchFilter(props, query), type),
                                  minInput), maxInput)

\* whether filterProperties throws before reaching line 127
filterThrows(props, query) ==
    /\ Truthy(Trim(query))
    /\ \E i \in 1..Len(props) : SearchMatchThrows(props[i], query)

-----------------------------------------------------------------------------
(* properties.ts searchProperties (lines 162-207): the search the store    *)
(* runs.  A filter that is not given is None.                              *)

\* column ILIKE '%query%': case-insensitive containment, NULL (neither true
\* nor false, so not selected) on a null column.  The queries of the model
\* hold neither % nor _.
Ilike(opt, query) ==
    IF IsNull(opt) THEN FALSE
    ELSE Includes(ToLowerCase(opt[1]), ToLowerCase(query))

\* the truth value of a number in an if: 0 and NaN are false
NumberTruthy(n) ==
    CASE n.kind = "num" -> n.val # 0
      [] n.kind = "nan" -> FALSE
      [] OTHER          -> TRUE

\* lines 174-176: .or(title.ilike.%q%,description.ilike.%q%,location.ilike.%q%)
ServerTextSearch(rows, query) ==
    IF Truthy(query)
    THEN SelectSeq(rows, LAMBDA p : \/ Ilike(Some(p.title), query)
                                   \/ Ilike(p.description, query)
                                   \/ Ilike(p.location, query))
    ELSE rows

\* lines 179-181
ServerTypeFilter(rows, type) ==
    IF ~IsNull(type) /\ type[1] # ""
    THEN SelectSeq(rows, LAMBDA p : p.type = type[1])
    ELSE rows

\* lines 183-185
ServerMinPrice(rows, min) ==
    IF ~IsNull(min) /\ NumberTruthy(min[1])
    THEN SelectSeq(rows, LAMBDA p : NumGte(p.price, min[1]))
    ELSE rows

\* lines 187-189
ServerMaxPrice(rows, max) ==
    IF ~IsNull(max) /\ NumberTruthy(max[1])
    THEN SelectSeq(rows, LAMBDA p : NumLte(p.price, max[1]))
    ELSE rows

\* lines 191-193
ServerLocation(rows, loc) ==
    IF ~IsNull(loc) /\ Truthy(loc[1])
    THEN SelectSeq(rows, LAMBDA p : Ilike(p.location, loc[1]))
    ELSE rows

\* what searchProperties returns over the rows of the table, given in the
\* order of created_at descending (line 195)
searchProperties(rows, query, filters) ==
    ServerLocation(
        ServerMaxPrice(
            ServerMinPrice(
                ServerTypeFilter(ServerTextSearch(rows, query), filters.type),
                filters.minPrice),
            filters.maxPrice),
        filters.location)

-----------------------------------------------------------------------------
(* The inputs of the filter                                                *)

SearchQueries ==
    { <<>>, <<" ">>, <<"a">>, <<"A", "B">>, <<"b", " ">>, <<" ", "a">> }

TypeChoices == {"all"} \cup PropertyTypes

PriceInputs ==
    { <<>>, <<"0">>, <<"2">>, <<"a">>, <<"2", "a">>, InfinityLiteral }

-----------------------------------------------------------------------------
(* The Home view's filter state and the effect of lines 52-54, which runs  *)
(* filterProperties after every change of properties or of a filter field  *)

FilterInit ==
    /\ properties = <<>>
    /\ filteredProperties = <<>>
    /\ searchQuery = <<>>
    /\ selectedType = "all"
    /\ minPrice = <<>>
    /\ maxPrice = <<>>
    /\ renderError = FALSE

\* the variables outside the filter, at rest
FavIdle ==
    /\ user = None
    /\ favRows = <<>>
    /\ propRows = {}
    /\ photoRows = PhotoTable
    /\ requests = EmptyBag
    /\ favoritePropertyIds = <<>>
    /\ favoriteProperties = <<>>
    /\ unhandled = FALSE
    /\ last = [kind |-> "none", id |-> 0, result |-> "none", failed |-> FALSE]
    /\ pair = [phase |-> -1, id |-> 0, before |-> {}]
    /\ sync = [stopped |-> FALSE, resynced |-> FALSE]
    /\ view = "home"
    /\ mounted = TRUE
    /\ loads = EmptyBag
    /\ propertyPhotos = <<>>
    /\ alert = <<>>
    /\ mapReady = FALSE
    /\ markers = <<>>
    /\ selectedProperty = <<>>
    /\ currentImageIndex = Num(0)

\* no handler went past its await in the step just taken
LastNone == [kind |-> "none", id |-> 0, result |-> "none", failed |-> FALSE]

\* clearFilters ran in the step just taken
LastClear == [kind |-> "clear", id |-> 0, result |-> "none", failed |-> FALSE]

\* the effect, run on the state the step produces; nothing of the filter
\* touches the favorites
FilterEffect ==
    /\ IF filterThrows(properties', searchQuery')
       THEN /\ renderError' = TRUE
            /\ UNCHANGED filteredProperties
       ELSE /\ renderError' = FALSE
            /\ filteredProperties' =
                   filterProperties(properties', searchQuery', selectedType',
                                    minPrice', maxPrice')
    /\ UNCHANGED <<storeVars, favVars, pair, sync, viewVars>>

\* line 73: a load publishes the list it fetched
setProperties(list) ==
    /\ ~renderError
    /\ properties' = list
    /\ UNCHANGED <<searchQuery, selectedType, minPrice, maxPrice>>
    /\ last' = LastNone
    /\ FilterEffect

\* line 338
setSearchQuery(q) ==
    /\ ~renderError
    /\ searchQuery' = q
    /\ UNCHANGED <<properties, selectedType, minPrice, maxPrice>>
    /\ last' = LastNone
    /\ FilterEffect

\* line 362
setSelectedType(t) ==
    /\ ~renderError
    /\ selectedType' = t
    /\ UNCHANGED <<properties, searchQuery, minPrice, maxPrice>>
    /\ last' = LastNone
    /\ FilterEffect

\* line 384
setMinPrice(s) ==
    /\ ~renderError
    /\ minPrice' = s
    /\ UNCHANGED <<properties, searchQuery, selectedType, maxPrice>>
    /\ last' = LastNone
    /\ FilterEffect

\* line 393
setMaxPrice(s) ==
    /\ ~renderError
    /\ maxPrice' = s
    /\ UNCHANGED <<properties, searchQuery, selectedType, minPrice>>
    /\ last' = LastNone
    /\ FilterEffect

\* setMaxPrice('') forgotten
clearFilters_KeepsMaxPrice ==
    /\ ~renderError
    /\ searchQuery' = <<>>
    /\ selectedType' = "all"
    /\ minPrice' = <<>>
    /\ UNCHANGED <<properties, maxPrice>>
    /\ last' = LastClear
    /\ FilterEffect

\* lines 130-135: the four setters, and the effect of lines 52-54 on the
\* state they leave
clearFilters ==
    /\ ~renderError
    /\ searchQuery' = <<>>
    /\ selectedType' = "all"
    /\ minPrice' = <<>>
    /\ maxPrice' = <<>>
    /\ UNCHANGED properties
    /\ last' = LastClear
    /\ FilterEffect

FilterNext ==
    \/ \E list \in PropertyLists : setProperties(list)
    \/ \E q \in SearchQueries : setSearchQuery(q)
    \/ \E t \in TypeChoices : setSelectedType(t)
    \/ \E s \in PriceInputs : setMinPrice(s)
    \/ \E s \in PriceInputs : setMaxPrice(s)
    \/ clearFilters

SpecFilterInit == FilterInit /\ FavIdle

SpecFilter == SpecFilterInit /\ [][FilterNext]_vars

-----------------------------------------------------------------------------
(* The remote store: user_favorites and properties                         *)

\* the rows of the catalogue the user favorites and unfavorites
FavIds == {1, 2}

SeqToSet(seq) == {seq[i] : i \in 1..Len(seq)}

Without(seq, x) == SelectSeq(seq, LAMBDA y : y # x)

Reverse(seq) == [i \in 1..Len(seq) |-> seq[Len(seq) + 1 - i]]

\* the sequences over ids that hold no id twice: UNIQUE(user_id, property_id)
RowSeqs(ids) ==
    {seq \in UNION {[1..n -> ids] : n \in 0..Cardinality(ids)} :
        \A i, j \in 1..Len(seq) : seq[i] = seq[j] => i = j}

\* the columns the join of getUserFavoriteProperties selects (lines 77-93)
JoinColumns_NoStatus == Columns \ {"status"}

JoinColumns ==
    {"id", "user_id", "type", "title", "description", "price", "location",
     "latitude", "longitude", "contact_name", "contact_number",
     "contact_email", "status", "created_at", "updated_at"}

\* the embedded properties(...) object of one favorites row: the selected
\* columns of the referenced row, or null when there is no such row
Embedded(propertyId, props) ==
    IF propertyId \in props
    THEN Some([c \in JoinColumns |-> Catalogue[propertyId][c]])
    ELSE None

\* select property_id, properties(...) ... order by created_at descending
JoinRows(rows, props) ==
    [i \in 1..Len(rows) |->
        [property_id |-> Reverse(rows)[i],
         properties  |-> Embedded(Reverse(rows)[i], props)]]

\* .filter(Boolean) dropped: the null of a dangling row stays in the list
FavoritePropertiesOf_KeepNull(data) ==
    [i \in 1..Len(data) |->
        IF data[i].properties = None THEN None ELSE data[i].properties[1]]

\* line 103: data.map(fav => fav.properties).filter(Boolean)
FavoritePropertiesOf(data) ==
    LET mapped == [i \in 1..Len(data) |-> data[i].properties]
        kept   == SelectSeq(mapped, LAMBDA o : o # None)
    IN  [i \in 1..Len(kept) |-> kept[i][1]]

\* line 63: data.map(fav => fav.property_id)
FavoriteIdsOf(rows) == rows

-----------------------------------------------------------------------------
(* A call of the favorites service, from the handler that awaits it to the *)
(* handler's continuation.  stage "sent": the service function is running  *)
(* (awaiting supabase.auth.getUser() and then its query); stage "replied": *)
(* it has returned and the handler's continuation has not run yet.  The    *)
(* session does not change while the model runs, so the two awaits of the  *)
(* service function are taken in one step.                                 *)
(*   kind     add | remove | list | favprops                               *)
(*   result   ok: the service returned without error; error: it returned   *)
(*            an error value; throw: it rejected                           *)
(*   value    what it returned (list, favprops)                            *)
(*   queried  a query went to the store                                    *)
(*   failed   the store answered the query with an error                   *)
(*   message  the message of the error value, where the service sets one   *)
(*   seen     (favprops) the ids the user had favorited when the call was  *)
(*            made; read by the properties only                            *)
(*   after    the call was made after the favorites stopped changing; read *)
(*            by the properties only                                       *)

NoUserError == "User not authenticated"

LastOf(r) == [kind |-> r.kind, id |-> r.id, result |-> r.result, failed |-> r.failed]

GetUserRejected == "getUser rejected"

Request(kind, id) ==
    [kind |-> kind, id |-> id, stage |-> "sent",
     result |-> "none", value |-> <<>>, queried |-> FALSE, failed |-> FALSE,
     message |-> "",
     seen |-> IF kind = "favprops" THEN SeqToSet(favRows) ELSE {},
     after |-> sync.stopped]

\* the calls in flight, each once
InFlight == BagToSet(requests)

CanCall == ~unhandled /\ BagCardinality(requests) < MaxInflight

Call(r) == requests (+) SetToBag({r})

Done(r) == requests (-) SetToBag({r})

Replace(r, r2) == Done(r) (+) SetToBag({r2})

Replied(r, result) == [r EXCEPT !.stage = "replied", !.result = result]

\* the branch 'if (!user.user)' forgotten: user.user.id throws on null
NoUserReply_Deref(r) == Replied(r, "throw")

\* what each service function returns when getUser() resolves to no user
\* (lines 14-16, 33-35, 49-51, 69-71): no query is made
NoUserReply(r) ==
    IF r.kind \in {"add", "remove"}
    THEN [Replied(r, "error") EXCEPT !.message = NoUserError]
    ELSE [Replied(r, "ok") EXCEPT !.value = <<>>]

\* getUser() resolves to no user and the service function returns
ServiceNoUser(r) ==
    /\ r \in InFlight /\ r.stage = "sent"
    /\ user = None
    /\ requests' = Replace(r, NoUserReply(r))
    /\ UNCHANGED <<filterVars, storeVars, favoritePropertyIds,
                   favoriteProperties, unhandled, pair>>
    /\ last' = LastNone
    /\ UNCHANGED <<sync, viewVars>>

\* getUser() rejects, and the service function with it
ServiceThrow(r) ==
    /\ r \in InFlight /\ r.stage = "sent"
    /\ requests' = Replace(r, [Replied(r, "throw") EXCEPT !.message = GetUserRejected])
    /\ UNCHANGED <<filterVars, storeVars, favoritePropertyIds,
                   favoriteProperties, unhandled, pair>>
    /\ last' = LastNone
    /\ UNCHANGED <<sync, viewVars>>

\* the store rejects an insert that breaks UNIQUE(user_id, property_id) or
\* the reference to properties(id)  (part_000 lines 5 and 7)
InsertAllowed(id) == id \notin SeqToSet(favRows) /\ id \in propRows

Queried(r, result) == [Replied(r, result) EXCEPT !.queried = TRUE]

\* getUser() resolves to the user, the store runs the query and the service
\* function returns (lines 18-27, 37-43, 53-63, 73-103)
ServiceQuery(r) ==
    /\ r \in InFlight /\ r.stage = "sent"
    /\ user # None
    /\ CASE r.kind = "add" ->
              IF InsertAllowed(r.id)
              THEN /\ favRows' = Append(favRows, r.id)
                   /\ requests' = Replace(r, Queried(r, "ok"))
              ELSE /\ UNCHANGED favRows
                   /\ requests' = Replace(r, [Queried(r, "error") EXCEPT !.failed = TRUE])
         [] r.kind = "remove" ->
              /\ favRows' = Without(favRows, r.id)
              /\ requests' = Replace(r, Queried(r, "ok"))
         [] r.kind = "list" ->
              /\ UNCHANGED favRows
              /\ requests' = Replace(r, [Queried(r, "ok") EXCEPT
                                           !.value = FavoriteIdsOf(favRows)])
         [] r.kind = "favprops" ->
              /\ UNCHANGED favRows
              /\ requests' = Replace(r, [Queried(r, "ok") EXCEPT
                                           !.value = FavoritePropertiesOf(JoinRows(favRows, propRows))])
    /\ UNCHANGED <<filterVars, user, propRows, photoRows, favoritePropertyIds,
                   favoriteProperties, unhandled, pair>>
    /\ last' = LastNone
    /\ UNCHANGED <<sync, viewVars>>

\* getUserFavorites with the error of the store passed on
StoreErrorReply_Propagate(r) ==
    [Queried(r, "error") EXCEPT !.failed = TRUE]

\* what each service function returns when the store answers with an error:
\* add and remove pass it on (lines 27, 43), the two reads return []
\* (lines 58-61, 98-101)
StoreErrorReply(r) ==
    IF r.kind \in {"add", "remove"}
    THEN [Queried(r, "error") EXCEPT !.failed = TRUE]
    ELSE [Queried(r, "ok") EXCEPT !.value = <<>>, !.failed = TRUE]

\* getUser() resolves to the user and the query fails (network, server):
\* the store is not changed
ServiceQueryError(r) ==
    /\ r \in InFlight /\ r.stage = "sent"
    /\ user # None
    /\ requests' = Replace(r, StoreErrorReply(r))
    /\ UNCHANGED <<filterVars, storeVars, favoritePropertyIds,
                   favoriteProperties, unhandled, pair>>
    /\ last' = LastNone
    /\ UNCHANGED <<sync, viewVars>>

-----------------------------------------------------------------------------
(* The store changed from elsewhere                                        *)

\* the user favorites a property from another view or session: the insert
\* of addToFavorites (lines 18-25) reaches the store
OtherSessionAdd(id) ==
    /\ user # None /\ InsertAllowed(id)
    /\ favRows' = Append(favRows, id)
    /\ UNCHANGED <<filterVars, user, propRows, photoRows, favVars, pair>>
    /\ last' = LastNone
    /\ UNCHANGED <<sync, viewVars>>

\* the user removes a favorite from another view or session: the delete of
\* removeFromFavorites (lines 37-41) reaches the store
OtherSessionRemove(id) ==
    /\ user # None /\ id \in SeqToSet(favRows)
    /\ favRows' = Without(favRows, id)
    /\ UNCHANGED <<filterVars, user, propRows, photoRows, favVars, pair>>
    /\ last' = LastNone
    /\ UNCHANGED <<sync, viewVars>>

\* a property row is deleted (properties.ts lines 147-159).  The favorites
\* rows that reference it go with it where ON DELETE CASCADE (part_000
\* line 5) is in force, and stay, dangling, where it is not.
DeleteProperty(id, cascade) ==
    /\ id \in propRows
    /\ propRows' = propRows \ {id}
    /\ favRows' = IF cascade THEN Without(favRows, id) ELSE favRows
    /\ UNCHANGED <<filterVars, user, photoRows, favVars, pair>>
    /\ last' = LastNone
    /\ UNCHANGED <<sync, viewVars>>

-----------------------------------------------------------------------------
(* The handlers of the views: HomeScreen.tsx toggleFavorite (146-170) and  *)
(* loadUserFavorites (137-144), SearchScreen.tsx loadFavoriteProperties    *)
(* (44-74)                                                                 *)

\* pair follows two toggles of one property made in sequence with nothing
\* else of the view in flight: phase 1, the first is in flight; 2, it has
\* returned success; 3, the second is in flight; 4, it has returned success
\* in the step just taken; before is the set of favorited ids when the first
\* was made.  PairOff: not followed.
PairIdle == [phase |-> 0, id |-> 0, before |-> {}]

PairOff == [phase |-> -1, id |-> 0, before |-> {}]

Track(p) == pair' = IF pair = PairOff THEN PairOff ELSE p

\* every handler awaits the service inside try { } catch { console.error }
\* (HomeScreen 138-143, 147-169; SearchScreen 45-69)
HandlerCatches(kind) == TRUE

\* toggleFavorite up to its await: 'includes' on the rendered list chooses
\* between removeFromFavorites and addToFavorites (lines 148-160); no state
\* is set before the await
ToggleFavorite(id) ==
    /\ CanCall
    /\ LET kind == IF id \in SeqToSet(favoritePropertyIds) THEN "remove" ELSE "add"
       IN  requests' = Call(Request(kind, id))
    /\ Track(IF requests = EmptyBag /\ pair.phase = 2 /\ pair.id = id
             THEN [pair EXCEPT !.phase = 3]
             ELSE IF requests = EmptyBag
             THEN [phase |-> 1, id |-> id, before |-> SeqToSet(favoritePropertyIds)]
             ELSE PairIdle)
    /\ UNCHANGED <<filterVars, storeVars, favoritePropertyIds,
                   favoriteProperties, unhandled>>
    /\ last' = LastNone
    /\ UNCHANGED <<sync, viewVars>>

\* the error test of lines 153-156 and 161-164 forgotten
ApplyToggleReply_IgnoreError(prev, kind, id, result) ==
    IF kind = "remove" THEN Without(prev, id) ELSE Append(prev, id)

\* the remove branch filtering with === instead of !==
ApplyToggleReply_KeepOnlyRemoved(prev, kind, id, result) ==
    IF result # "ok" THEN prev
    ELSE IF kind = "remove" THEN SelectSeq(prev, LAMBDA y : y = id)
    ELSE Append(prev, id)

\* the functional update toggleFavorite makes after its await, applied to
\* the list as it is then (lines 153-165)
ApplyToggleReply(prev, kind, id, result) ==
    IF result # "ok" THEN prev
    ELSE IF kind = "remove" THEN Without(prev, id)
    ELSE Append(prev, id)

\* toggleFavorite after its await
ToggleReturn(r) ==
    /\ r \in InFlight /\ r.stage = "replied" /\ r.kind \in {"add", "remove"}
    /\ requests' = Done(r)
    /\ IF r.result = "throw"
       THEN /\ unhandled' = ~HandlerCatches(r.kind)
            /\ UNCHANGED favoritePropertyIds
       ELSE /\ favoritePropertyIds' =
                   ApplyToggleReply(favoritePropertyIds, r.kind, r.id, r.result)
            /\ UNCHANGED unhandled
    /\ last' = LastOf(r)
    /\ UNCHANGED <<sync, viewVars>>
    /\ Track(IF r.result = "ok" /\ pair.phase \in {1, 3}
             THEN [pair EXCEPT !.phase = pair.phase + 1]
             ELSE PairIdle)
    /\ UNCHANGED <<filterVars, storeVars, favoriteProperties>>

\* loadUserFavorites up to its await (line 139); called on mount (line 49),
\* on focus (line 59) and at the end of a refresh (line 174)
LoadUserFavorites ==
    /\ CanCall
    /\ requests' = Call(Request("list", 0))
    /\ Track(PairIdle)
    /\ UNCHANGED <<filterVars, storeVars, favoritePropertyIds,
                   favoriteProperties, unhandled>>
    /\ last' = LastNone
    /\ UNCHANGED <<sync, viewVars>>

\* loadUserFavorites after its await (line 140)
LoadUserFavoritesReturn(r) ==
    /\ r \in InFlight /\ r.stage = "replied" /\ r.kind = "list"
    /\ requests' = Done(r)
    /\ IF r.result = "ok"
       THEN /\ favoritePropertyIds' = r.value
            /\ UNCHANGED unhandled
       ELSE /\ unhandled' = ~HandlerCatches(r.kind)
            /\ UNCHANGED favoritePropertyIds
    /\ Track(PairIdle)
    /\ UNCHANGED <<filterVars, storeVars, favoriteProperties>>
    /\ last' = LastOf(r)
    /\ sync' = IF r.after THEN [sync EXCEPT !.resynced = TRUE] ELSE sync
    /\ UNCHANGED viewVars

\* loadFavoriteProperties up to its await (SearchScreen line 53); called on
\* mount (line 34), on focus (line 40) and on refresh (line 77)
LoadFavoriteProperties ==
    /\ CanCall
    /\ requests' = Call(Request("favprops", 0))
    /\ Track(PairIdle)
    /\ UNCHANGED <<filterVars, storeVars, favoritePropertyIds,
                   favoriteProperties, unhandled>>
    /\ last' = LastNone
    /\ UNCHANGED <<sync, viewVars>>

\* loadFavoriteProperties after its await (SearchScreen line 54)
LoadFavoritePropertiesReturn(r) ==
    /\ r \in InFlight /\ r.stage = "replied" /\ r.kind = "favprops"
    /\ requests' = Done(r)
    /\ IF r.result = "ok"
       THEN /\ favoriteProperties' = r.value
            /\ UNCHANGED unhandled
       ELSE /\ unhandled' = ~HandlerCatches(r.kind)
            /\ UNCHANGED favoriteProperties
    /\ Track(PairIdle)
    /\ UNCHANGED <<filterVars, storeVars, favoritePropertyIds>>
    /\ last' = LastOf(r)
    /\ UNCHANGED <<sync, viewVars>>

-----------------------------------------------------------------------------
(* The favorites: the views, the service and the store together            *)

Users == {None, Some("u1")}

\* the favorites are changing still
SyncIdle == [stopped |-> FALSE, resynced |-> FALSE]

\* the embedded map not loaded yet and the detail modal closed
PanelIdle ==
    /\ mapReady = FALSE
    /\ markers = <<>>
    /\ selectedProperty = None
    /\ currentImageIndex = Num(0)

\* no listing view loading: the model of the favorites alone
ViewIdle ==
    /\ view = "home"
    /\ mounted = TRUE
    /\ loads = EmptyBag
    /\ propertyPhotos = <<>>
    /\ alert = None
    /\ PanelIdle

FavInit(pair0) ==
    /\ FilterInit
    /\ user \in Users
    /\ propRows = FavIds
    /\ photoRows = PhotoTable
    /\ favRows \in (IF user = None THEN {<<>>} ELSE RowSeqs(FavIds))
    /\ requests = EmptyBag
    /\ favoritePropertyIds = <<>>
    /\ favoriteProperties = <<>>
    /\ unhandled = FALSE
    /\ last = LastNone
    /\ pair = pair0
    /\ sync = SyncIdle
    /\ ViewIdle

\* the Home view's favorites: toggles and resyncs against the store, which
\* the same user also changes from elsewhere
Init == FavInit(PairIdle)

Next ==
    \/ \E id \in FavIds : ToggleFavorite(id)
    \/ LoadUserFavorites
    \/ \E r \in InFlight : ServiceNoUser(r)
    \/ \E r \in InFlight : ServiceThrow(r)
    \/ \E r \in InFlight : ServiceQuery(r)
    \/ \E r \in InFlight : ServiceQueryError(r)
    \/ \E r \in InFlight : ToggleReturn(r)
    \/ \E r \in InFlight : LoadUserFavoritesReturn(r)
    \/ \E id \in FavIds : OtherSessionAdd(id)
    \/ \E id \in FavIds : OtherSessionRemove(id)

Spec == Init /\ [][Next]_vars

\* the favorites-listing view: loads of the favorite properties, while the
\* user's favorites change (from the Home view, from another session) and
\* properties are deleted
SearchInit == FavInit(PairOff)

SearchNext ==
    \/ LoadFavoriteProperties
    \/ \E r \in InFlight : ServiceNoUser(r)
    \/ \E r \in InFlight : ServiceThrow(r)
    \/ \E r \in InFlight : ServiceQuery(r)
    \/ \E r \in InFlight : ServiceQueryError(r)
    \/ \E r \in InFlight : LoadFavoritePropertiesReturn(r)
    \/ \E id \in FavIds : OtherSessionAdd(id)
    \/ \E id \in FavIds : OtherSessionRemove(id)
    \/ \E id \in FavIds, cascade \in BOOLEAN : DeleteProperty(id, cascade)

SpecSearch == SearchInit /\ [][SearchNext]_vars

\* the session ends while the Home view is shown (signOut, DashboardScreen
\* line 137): getUser() yields no user from then on, the rows stay
SignOut ==
    /\ user # None
    /\ user' = None
    /\ UNCHANGED <<filterVars, favRows, propRows, photoRows, favVars, pair>>
    /\ last' = LastNone
    /\ UNCHANGED <<sync, viewVars>>

\* the Home view's favorites over a session that can end
SessionInit == FavInit(PairOff)

SessionNext ==
    \/ \E id \in FavIds : ToggleFavorite(id)
    \/ LoadUserFavorites
    \/ \E r \in InFlight : ServiceNoUser(r)
    \/ \E r \in InFlight : ServiceThrow(r)
    \/ \E r \in InFlight : ServiceQuery(r)
    \/ \E r \in InFlight : ToggleReturn(r)
    \/ \E r \in InFlight : LoadUserFavoritesReturn(r)
    \/ SignOut

SpecSession == SessionInit /\ [][SessionNext]_vars

\* the favorites stop changing: no toggle is in flight and none is made,
\* here or elsewhere, from now on
Stop ==
    /\ ~sync.stopped
    /\ \A r \in InFlight : r.kind \notin {"add", "remove"}
    /\ sync' = [sync EXCEPT !.stopped = TRUE]
    /\ last' = LastNone
    /\ UNCHANGED <<filterVars, storeVars, favVars, pair, viewVars>>

StillChanging == ~sync.stopped

\* the Home view's favorites up to the time they stop changing, and the
\* resyncs (mount, focus, refresh) before and after it; every call succeeds
ResyncInit == FavInit(PairOff) /\ user # None

ResyncNext ==
    \/ \E id \in FavIds : StillChanging /\ ToggleFavorite(id)
    \/ \E id \in FavIds : StillChanging /\ OtherSessionAdd(id)
    \/ \E id \in FavIds : StillChanging /\ OtherSessionRemove(id)
    \/ LoadUserFavorites
    \/ \E r \in InFlight : ServiceQuery(r)
    \/ \E r \in InFlight : ToggleReturn(r)
    \/ \E r \in InFlight : LoadUserFavoritesReturn(r)
    \/ Stop

SpecResync == ResyncInit /\ [][ResyncNext]_vars

\* the store runs the query of the call and does not refuse it
ServiceSucceeds(r) ==
    /\ ServiceQuery(r)
    /\ r.kind = "add" => InsertAllowed(r.id)

\* the Home view alone with the store, from its mount (lines 47-50: the
\* first resync is on its way): the favorites change through the view's own
\* toggleFavorite only, and every call succeeds
OwnInit ==
    /\ FilterInit
    /\ user = Some("u1")
    /\ propRows = FavIds
    /\ photoRows = PhotoTable
    /\ favRows \in RowSeqs(FavIds)
    /\ favoritePropertyIds = <<>>
    /\ favoriteProperties = <<>>
    /\ unhandled = FALSE
    /\ last = LastNone
    /\ pair = PairOff
    /\ sync = SyncIdle
    /\ ViewIdle
    /\ requests = SetToBag({Request("list", 0)})

OwnNext ==
    \/ \E id \in FavIds : ToggleFavorite(id)
    \/ LoadUserFavorites
    \/ \E r \in InFlight : ServiceSucceeds(r)
    \/ \E r \in InFlight : ToggleReturn(r)
    \/ \E r \in InFlight : LoadUserFavoritesReturn(r)

SpecOwn == OwnInit /\ [][OwnNext]_vars

-----------------------------------------------------------------------------
(* A listing view and its load sequence: HomeScreen.tsx loadAllProperties  *)
(* (63-93), SearchScreen.tsx loadFavoriteProperties (44-74), MapScreen.tsx *)
(* loadAllProperties (29-59), MyProperties loadProperties (part_003        *)
(* 996-1022).  A load awaits the listing query, publishes the list, then   *)
(* awaits the photos of each property in turn and publishes the map it     *)
(* built.  Each step of a load is one answer together with the code that   *)
(* runs on it, up to the next await.                                       *)
(*   stage      list: awaiting the listing query; photos: in the loop      *)
(*   list       the list the query returned                                *)
(*   k          the position in list whose photos are awaited              *)
(*   photosMap  the local photosMap so far                                 *)
(*   failed     the ids whose photo fetch failed   (read by properties)    *)
(*   fetched    what each successful fetch returned (read by properties)   *)
(*   overlap    another load of the view was in flight at some time of     *)
(*              this one                           (read by properties)    *)

Views == {"home", "search", "map", "mine"}

\* getPropertyPhotos(id) then photos.map(photo => photo.photo_url): the
\* photos of a deleted property went with it (properties-schema.sql line 25)
PhotoUrls(id) == IF id \in propRows THEN photoRows[id] ELSE <<>>

\* whether the photo loop of the view wraps each fetch in try/catch: Home
\* (78-84), Search (59-65) and MyProperties (1007-1013) do, Map (41-44)
\* does not
PhotoLoopCatches(v) == v # "map"

\* the listing query of the view: getAllProperties (Home, Map),
\* getPropertiesByUser (MyProperties), getUserFavoriteProperties (Search)
ListQuery(v) ==
    CASE v = "search" -> FavoritePropertiesOf(JoinRows(favRows, propRows))
      [] v = "mine"   -> SelectSeq(Rows(propRows), LAMBDA p : Some(p.user_id) = user)
      [] OTHER        -> Rows(propRows)

NewLoad ==
    [stage |-> "list", list |-> <<>>, k |-> 0, photosMap |-> <<>>,
     failed |-> {}, fetched |-> <<>>, overlap |-> loads # EmptyBag]

LoadsInFlight == BagToSet(loads)

\* a load's step, or its end, as the properties read it
LastLoad(l, result) ==
    [kind |-> "load", id |-> 0, result |-> result, failed |-> l.failed # {},
     load |-> l]

\* the load sequence is called: on mount, on focus, on pull-to-refresh
LoadStart ==
    /\ mounted
    /\ BagCardinality(loads) < MaxLoads
    /\ loads' = BagOfAll(LAMBDA l : [l EXCEPT !.overlap = TRUE], loads)
                    (+) SetToBag({NewLoad})
    /\ last' = LastNone
    /\ UNCHANGED <<filterVars, storeVars, favVars, pair, sync, view, mapVars, modalVars, mounted,
                   propertyPhotos, alert>>

\* setProperties / setFavoriteProperties: the list state of the view, and
\* on Home the filter effect that follows a change of properties
PublishList(list) ==
    /\ IF view = "search"
       THEN /\ favoriteProperties' = list
            /\ UNCHANGED <<properties, filteredProperties>>
       ELSE /\ properties' = list
            /\ UNCHANGED favoriteProperties
            /\ IF view = "home"
               THEN filteredProperties' =
                        filterProperties(list, searchQuery, selectedType,
                                         minPrice, maxPrice)
               ELSE UNCHANGED filteredProperties
    /\ UNCHANGED <<searchQuery, selectedType, minPrice, maxPrice, renderError>>

\* the listing query is answered with the list; an empty list makes the
\* loop empty and the empty photosMap is published in the same turn
LoadListAnswered(l, list) ==
    /\ PublishList(list)
    /\ UNCHANGED markers
    /\ IF list = <<>>
       THEN /\ propertyPhotos' = <<>>
            /\ loads' = loads (-) SetToBag({l})
            /\ last' = LastLoad([l EXCEPT !.stage = "photos"], "published")
       ELSE /\ UNCHANGED propertyPhotos
            /\ loads' = (loads (-) SetToBag({l})) (+)
                          SetToBag({[l EXCEPT !.stage = "photos",
                                              !.list = list, !.k = 1]})
            /\ last' = LastNone

LoadList(l) ==
    /\ l \in LoadsInFlight /\ l.stage = "list"
    /\ LoadListAnswered(l, ListQuery(view))
    /\ UNCHANGED <<storeVars, requests, favoritePropertyIds, unhandled, pair,
                   sync, view, mapReady, modalVars, mounted, alert>>

\* the listing query fails: getAllProperties and getPropertiesByUser throw
\* and the load ends in its catch; getUserFavoriteProperties returns []
LoadListFails(l) ==
    /\ l \in LoadsInFlight /\ l.stage = "list"
    /\ IF view = "search"
       THEN LoadListAnswered(l, <<>>)
       ELSE /\ loads' = loads (-) SetToBag({l})
            /\ last' = LastLoad(l, "aborted")
            /\ UNCHANGED <<filterVars, favoriteProperties, propertyPhotos,
                           markers>>
    /\ UNCHANGED <<storeVars, requests, favoritePropertyIds, unhandled, pair,
                   sync, view, mapReady, modalVars, mounted, alert>>

\* a coordinate in a condition: null and 0 are falsy
CoordinateTruthy(opt) == opt # None /\ opt[1] # 0

\* the page's updatePropertyMarkers (MapScreen 347-397): the old markers are
\* removed, and a marker is made for each property that passes
\* 'property.latitude && property.longitude'
updatePropertyMarkers(list) ==
    LET marked == SelectSeq(list, LAMBDA p : /\ CoordinateTruthy(p.latitude)
                                             /\ CoordinateTruthy(p.longitude))
    IN  [i \in 1..Len(marked) |-> marked[i].id]

\* the end of the map view's load (MapScreen 47-51): the script is injected
\* when the WebView is there and the list is not empty; in a page that has
\* not run initMap yet the script fails and leaves no marker
InjectMarkers(list) ==
    IF view = "map" /\ mounted /\ list # <<>> /\ mapReady
    THEN updatePropertyMarkers(list)
    ELSE markers

\* the photo fetches a load is awaiting: none before the listing query has
\* answered, then the one of the loop's current property ('for ... of' with
\* an await in its body, lines 77-79)
PhotoFetchesInFlight(l) ==
    IF l.stage = "photos" THEN {l.list[l.k].id} ELSE {}

\* the loop leaving one property early
PhotoLoopStep_EndsEarly(l, l2) ==
    IF l.k >= Len(l.list) - 1
    THEN /\ propertyPhotos' = l2.photosMap
         /\ markers' = InjectMarkers(l.list)
         /\ loads' = loads (-) SetToBag({l})
         /\ last' = LastLoad(l2, "published")
    ELSE /\ UNCHANGED <<propertyPhotos, markers>>
         /\ loads' = (loads (-) SetToBag({l})) (+)
                       SetToBag({[l2 EXCEPT !.k = l.k + 1]})
         /\ last' = LastNone

\* photosMap[property.id] = entry, and the loop goes on: to the next await,
\* or past its end to setPropertyPhotos(photosMap)
PhotoLoopStep(l, l2) ==
    IF l.k = Len(l.list)
    THEN /\ propertyPhotos' = l2.photosMap
         /\ markers' = InjectMarkers(l.list)
         /\ loads' = loads (-) SetToBag({l})
         /\ last' = LastLoad(l2, "published")
    ELSE /\ UNCHANGED <<propertyPhotos, markers>>
         /\ loads' = (loads (-) SetToBag({l})) (+)
                       SetToBag({[l2 EXCEPT !.k = l.k + 1]})
         /\ last' = LastNone

\* the photos of property k are fetched
LoadPhoto(l) ==
    /\ l \in LoadsInFlight /\ l.stage = "photos"
    /\ LET id == l.list[l.k].id
       IN  PhotoLoopStep(l, [l EXCEPT !.photosMap = (id :> PhotoUrls(id)) @@ @,
                                      !.fetched = (id :> PhotoUrls(id)) @@ @])
    /\ UNCHANGED <<filterVars, storeVars, favVars, pair, sync, view, mapReady, modalVars, mounted,
                   alert>>

\* the photo fetch of property k fails (getPropertyPhotos throws): the
\* loop's catch stores [] and goes on; without one the load ends in the
\* outer catch and publishes no photosMap
LoadPhotoFails(l) ==
    /\ l \in LoadsInFlight /\ l.stage = "photos"
    /\ LET id == l.list[l.k].id
           l2 == [l EXCEPT !.failed = @ \cup {id}]
       IN  IF PhotoLoopCatches(view)
           THEN PhotoLoopStep(l, [l2 EXCEPT !.photosMap = (id :> <<>>) @@ @])
           ELSE /\ loads' = loads (-) SetToBag({l})
                /\ last' = LastLoad(l2, "aborted")
                /\ UNCHANGED <<propertyPhotos, markers>>
    /\ UNCHANGED <<filterVars, storeVars, favVars, pair, sync, view, mapReady, modalVars, mounted,
                   alert>>

\* the view is unmounted; no effect of it has a cleanup and no load looks
\* at whether the view is still there
Unmount ==
    /\ mounted
    /\ mounted' = FALSE
    /\ alert' = None
    /\ last' = LastNone
    /\ UNCHANGED <<filterVars, storeVars, favVars, pair, sync, view, mapVars, modalVars, loads,
                   propertyPhotos>>

-----------------------------------------------------------------------------
(* SearchScreen.tsx toggleFavorite (80-119): the confirmation dialog and   *)
(* the removal it guards                                                   *)

\* the ids of a list of rows, as a set
IdSet(list) == {list[i].id : i \in 1..Len(list)}

\* the dialog skipped: the heart of the card removes at once
SearchToggleFavorite_NoConfirm(id) ==
    /\ mounted /\ view = "search" /\ alert = None
    /\ id \in IdSet(favoriteProperties)
    /\ CanCall
    /\ requests' = Call(Request("remove", id))
    /\ last' = LastNone
    /\ UNCHANGED <<filterVars, storeVars, favoritePropertyIds,
                   favoriteProperties, unhandled, pair, sync, viewVars>>

\* the heart of a listed card is pressed (line 208): Alert.alert shows the
\* dialog and toggleFavorite returns (lines 81-118)
SearchToggleFavorite(id) ==
    /\ mounted /\ view = "search" /\ alert = None
    /\ id \in IdSet(favoriteProperties)
    /\ alert' = Some(id)
    /\ last' = LastNone
    /\ UNCHANGED <<filterVars, storeVars, favVars, pair, sync, view, mapVars, modalVars, mounted,
                   loads, propertyPhotos>>

\* 'Cancel' (lines 85-88): the button has no onPress
CancelRemove ==
    /\ alert # None
    /\ alert' = None
    /\ last' = LastNone
    /\ UNCHANGED <<filterVars, storeVars, favVars, pair, sync, view, mapVars, modalVars, mounted,
                   loads, propertyPhotos>>

\* 'Remove' (lines 89-95): onPress up to its await
ConfirmRemove ==
    /\ alert # None
    /\ CanCall
    /\ requests' = Call(Request("remove", alert[1]))
    /\ alert' = None
    /\ last' = LastNone
    /\ UNCHANGED <<filterVars, storeVars, favoritePropertyIds,
                   favoriteProperties, unhandled, pair, sync, view, mapVars, modalVars, mounted,
                   loads, propertyPhotos>>

\* delete updated[propertyId] on a copy of the map (lines 106-110)
DeleteKey(map, id) == [x \in (DOMAIN map) \ {id} |-> map[x]]

\* lines 96-103: nothing on an error value, else
\* prev.filter(property => property.id !== propertyId)
SearchRemoveList(prev, id, result) ==
    IF result = "ok" THEN SelectSeq(prev, LAMBDA p : p.id # id) ELSE prev

\* the photos of the removed property left in the map
SearchRemovePhotos_Keep(prev, id, result) == prev

\* lines 96-110: nothing on an error value, else the map without the key
SearchRemovePhotos(prev, id, result) ==
    IF result = "ok" THEN DeleteKey(prev, id) ELSE prev

\* onPress after its await (lines 96-114)
SearchToggleReturn(r) ==
    /\ r \in InFlight /\ r.stage = "replied" /\ r.kind = "remove"
    /\ requests' = Done(r)
    /\ IF r.result = "throw"
       THEN /\ unhandled' = ~HandlerCatches(r.kind)
            /\ UNCHANGED <<favoriteProperties, propertyPhotos>>
       ELSE /\ favoriteProperties' =
                   SearchRemoveList(favoriteProperties, r.id, r.result)
            /\ propertyPhotos' =
                   SearchRemovePhotos(propertyPhotos, r.id, r.result)
            /\ UNCHANGED unhandled
    /\ last' = LastOf(r)
    /\ UNCHANGED <<filterVars, storeVars, favoritePropertyIds, pair, sync,
                   view, mapVars, modalVars, mounted, loads, alert>>

-----------------------------------------------------------------------------
(* The listing views: loads, and the store changing under them             *)

ViewsInit ==
    /\ FilterInit
    /\ view \in Views
    /\ user = IF view = "mine" THEN Some("owner") ELSE Some("u1")
    /\ propRows = FavIds
    /\ photoRows = PhotoTable
    /\ favRows \in (IF view = "search" THEN RowSeqs(FavIds) ELSE {<<>>})
    /\ requests = EmptyBag
    /\ favoritePropertyIds = <<>>
    /\ favoriteProperties = <<>>
    /\ unhandled = FALSE
    /\ last = LastNone
    /\ pair = PairOff
    /\ sync = SyncIdle
    /\ mounted = TRUE
    /\ loads = EmptyBag
    /\ propertyPhotos = <<>>
    /\ alert = None
    /\ PanelIdle

ViewsNext ==
    \/ LoadStart
    \/ \E l \in LoadsInFlight : LoadList(l)
    \/ \E l \in LoadsInFlight : LoadListFails(l)
    \/ \E l \in LoadsInFlight : LoadPhoto(l)
    \/ \E l \in LoadsInFlight : LoadPhotoFails(l)
    \/ \E id \in FavIds, cascade \in BOOLEAN : DeleteProperty(id, cascade)
    \/ Unmount

SpecViews == ViewsInit /\ [][ViewsNext]_vars

\* the favorites-listing view: its loads, each fetch of them answered, and
\* the removal behind the confirmation dialog
RemoveInit == ViewsInit /\ view = "search"

RemoveNext ==
    \/ LoadStart
    \/ \E l \in LoadsInFlight : LoadList(l)
    \/ \E l \in LoadsInFlight : LoadPhoto(l)
    \/ \E id \in FavIds : SearchToggleFavorite(id)
    \/ CancelRemove
    \/ ConfirmRemove
    \/ \E r \in InFlight : ServiceThrow(r)
    \/ \E r \in InFlight : ServiceQuery(r)
    \/ \E r \in InFlight : ServiceQueryError(r)
    \/ \E r \in InFlight : SearchToggleReturn(r)

SpecRemove == RemoveInit /\ [][RemoveNext]_vars

-----------------------------------------------------------------------------
(* The Home view as a whole: its loads, its filter and its favorite ids    *)

\* a focus effect that reloads the listing too, as the one of the
\* favorites-listing view does (SearchScreen 38-42)
HomeFocus_Reload ==
    /\ mounted /\ view = "home"
    /\ CanCall
    /\ BagCardinality(loads) < MaxLoads
    /\ requests' = Call(Request("list", 0))
    /\ loads' = BagOfAll(LAMBDA l : [l EXCEPT !.overlap = TRUE], loads)
                    (+) SetToBag({NewLoad})
    /\ last' = LastNone
    /\ UNCHANGED <<filterVars, storeVars, favoritePropertyIds,
                   favoriteProperties, unhandled, pair, sync, view, mapVars, modalVars, mounted,
                   propertyPhotos, alert>>

\* the view regains focus (lines 56-61): the effect calls loadUserFavorites,
\* which runs up to its await (line 139)
HomeFocus ==
    /\ mounted /\ view = "home"
    /\ CanCall
    /\ requests' = Call(Request("list", 0))
    /\ last' = LastNone
    /\ UNCHANGED <<filterVars, storeVars, favoritePropertyIds,
                   favoriteProperties, unhandled, pair, sync, viewVars>>

\* the inputs typed into the filter while the view loads
HomeQueries == { <<>>, <<"a">> }

HomeTypes == {"all", "sale"}

HomePrices == { <<>>, <<"2">> }

HomeInit ==
    /\ FilterInit
    /\ view = "home"
    /\ user = Some("u1")
    /\ propRows = FavIds
    /\ photoRows = PhotoTable
    /\ favRows \in RowSeqs(FavIds)
    /\ requests = EmptyBag
    /\ favoritePropertyIds = <<>>
    /\ favoriteProperties = <<>>
    /\ unhandled = FALSE
    /\ last = LastNone
    /\ pair = PairOff
    /\ sync = SyncIdle
    /\ mounted = TRUE
    /\ loads = EmptyBag
    /\ propertyPhotos = <<>>
    /\ alert = None
    /\ PanelIdle

HomeNext ==
    \/ LoadStart
    \/ \E l \in LoadsInFlight : LoadList(l)
    \/ \E l \in LoadsInFlight : LoadPhoto(l)
    \/ HomeFocus
    \/ \E r \in InFlight : ServiceQuery(r)
    \/ \E r \in InFlight : LoadUserFavoritesReturn(r)
    \/ \E q \in HomeQueries : setSearchQuery(q)
    \/ \E t \in HomeTypes : setSelectedType(t)
    \/ \E s \in HomePrices : setMaxPrice(s)
    \/ clearFilters

SpecHome == HomeInit /\ [][HomeNext]_vars

-----------------------------------------------------------------------------
(* HomeScreen.tsx: the detail modal and its image carousel (177-212,       *)
(* 436-505)                                                                *)

\* a + k for an integer k
JsAdd(a, k) == IF a.kind = "num" THEN Num(a.val + k) ELSE a

\* a % n for an integer n: NaN when n is 0 or a is NaN, else the remainder
\* with the sign of a
JsRem(a, n) ==
    IF a.kind # "num" \/ n = 0 THEN NaN
    ELSE IF a.val >= 0 THEN Num(a.val % n)
    ELSE Num(0 - ((0 - a.val) % n))

\* propertyPhotos[id] || []
PhotosOf(id) ==
    IF id \in DOMAIN propertyPhotos THEN propertyPhotos[id] ELSE <<>>

LastNext == [kind |-> "next", id |-> 0, result |-> "none", failed |-> FALSE]

LastPrev == [kind |-> "prev", id |-> 0, result |-> "none", failed |-> FALSE]

\* the eye button of a displayed card (line 295): lines 178-180.  The
\* creator's profile the handler goes on to fetch (183-190) is no part of
\* the carousel.
openPropertyModal(id) ==
    /\ mounted /\ view = "home"
    /\ selectedProperty = None
    /\ id \in IdSet(filteredProperties)
    /\ selectedProperty' = Some(id)
    /\ currentImageIndex' = Num(0)
    /\ last' = LastNone
    /\ UNCHANGED <<filterVars, storeVars, favVars, pair, sync, view, mounted,
                   loads, propertyPhotos, alert, mapVars>>

\* lines 193-198
closePropertyModal ==
    /\ selectedProperty # None
    /\ selectedProperty' = None
    /\ currentImageIndex' = Num(0)
    /\ last' = LastNone
    /\ UNCHANGED <<filterVars, storeVars, favVars, pair, sync, view, mounted,
                   loads, propertyPhotos, alert, mapVars>>

\* the arrows of the carousel are rendered: the modal shows a property with
\* more than one photo in the map (lines 441, 458-459, 477)
ArrowsShown ==
    /\ selectedProperty # None
    /\ Len(PhotosOf(selectedProperty[1])) > 1

\* lines 200-205
nextImage ==
    /\ selectedProperty # None
    /\ currentImageIndex' =
           JsRem(JsAdd(currentImageIndex, 1), Len(PhotosOf(selectedProperty[1])))
    /\ last' = LastNext
    /\ UNCHANGED <<filterVars, storeVars, favVars, pair, sync, view, mounted,
                   loads, propertyPhotos, alert, mapVars, selectedProperty>>

\* lines 207-212
prevImage ==
    /\ selectedProperty # None
    /\ currentImageIndex' =
           JsRem(JsAdd(currentImageIndex, Len(PhotosOf(selectedProperty[1])) - 1),
                 Len(PhotosOf(selectedProperty[1])))
    /\ last' = LastPrev
    /\ UNCHANGED <<filterVars, storeVars, favVars, pair, sync, view, mounted,
                   loads, propertyPhotos, alert, mapVars, selectedProperty>>

\* the owner deletes a photo of a property (properties.ts 252-264,
\* deletePropertyPhoto)
DeletePropertyPhoto(id, i) ==
    /\ id \in propRows
    /\ i \in 1..Len(photoRows[id])
    /\ photoRows' = [photoRows EXCEPT
                       ![id] = SubSeq(@, 1, i - 1) \o SubSeq(@, i + 1, Len(@))]
    /\ last' = LastNone
    /\ UNCHANGED <<filterVars, user, favRows, propRows, favVars, pair, sync,
                   viewVars>>

\* the Home view with its modal, over a store whose photos change
ModalInit == HomeInit /\ favRows = <<>>

ModalNext ==
    \/ LoadStart
    \/ \E l \in LoadsInFlight : LoadList(l)
    \/ \E l \in LoadsInFlight : LoadPhoto(l)
    \/ \E l \in LoadsInFlight : LoadPhotoFails(l)
    \/ \E id \in FavIds : openPropertyModal(id)
    \/ closePropertyModal
    \/ ArrowsShown /\ nextImage
    \/ ArrowsShown /\ prevImage
    \/ \E id \in FavIds, i \in 1..2 : DeletePropertyPhoto(id, i)

SpecModal == ModalInit /\ [][ModalNext]_vars

-----------------------------------------------------------------------------
(* The map view: its loads and the page of its WebView                     *)

\* the page has loaded: initMap makes the map and posts 'mapReady' (lines
\* 308-335, 418), and onMessage answers it with getCurrentLocation() alone
\* (lines 451-456)
LastReady == [kind |-> "ready", id |-> 0, result |-> "none", failed |-> FALSE]

MapReady ==
    /\ mounted /\ view = "map"
    /\ ~mapReady
    /\ mapReady' = TRUE
    /\ last' = LastReady
    /\ UNCHANGED <<filterVars, storeVars, favVars, pair, sync, view, mounted,
                   loads, propertyPhotos, alert, markers, modalVars>>

\* the rows of the table when the map view is opened
MapTables == { {1, 2}, {2, 3}, {1, 2, 3} }

MapInit ==
    /\ FilterInit
    /\ view = "map"
    /\ user = Some("u1")
    /\ propRows \in MapTables
    /\ photoRows = PhotoTable
    /\ favRows = <<>>
    /\ requests = EmptyBag
    /\ favoritePropertyIds = <<>>
    /\ favoriteProperties = <<>>
    /\ unhandled = FALSE
    /\ last = LastNone
    /\ pair = PairOff
    /\ sync = SyncIdle
    /\ mounted = TRUE
    /\ loads = EmptyBag
    /\ propertyPhotos = <<>>
    /\ alert = None
    /\ PanelIdle

\* every fetch of a load is answered; the table changes between the loads
MapNext ==
    \/ LoadStart
    \/ \E l \in LoadsInFlight : LoadList(l)
    \/ \E l \in LoadsInFlight : LoadPhoto(l)
    \/ MapReady
    \/ \E id \in PropertyIds : DeleteProperty(id, TRUE)

SpecMap == MapInit /\ [][MapNext]_vars

-----------------------------------------------------------------------------
(* Properties of the filter, checked under SpecFilter                      *)

\* the ids of a list of rows
Ids(list) == [i \in 1..Len(list) |-> list[i].id]

\* a price bound is active when its input is non-empty and parses to a
\* number that is not NaN
BoundActive(input) == input # <<>> /\ ParseFloat(input).kind # "nan"

\* the query is a case-insensitive substring of a field that is present
QueryIn(opt, query) ==
    /\ opt # None
    /\ Includes(ToLowerCase(opt[1]), ToLowerCase(query))

SatisfiesQuery(p, query) ==
    \/ Trim(query) = <<>>
    \/ QueryIn(Some(p.title), query)
    \/ QueryIn(p.description, query)
    \/ QueryIn(p.location, query)

\* price >= bound and price <= bound, for a finite price and a bound that is
\* a number or an infinity
AtLeast(price, bound) ==
    \/ bound.kind = "num" /\ price >= bound.val
    \/ bound.kind = "ninf"

AtMost(price, bound) ==
    \/ bound.kind = "num" /\ price <= bound.val
    \/ bound.kind = "inf"

SatisfiesAll(p) ==
    /\ SatisfiesQuery(p, searchQuery)
    /\ selectedType = "all" \/ p.type = selectedType
    /\ ~BoundActive(minPrice) \/ AtLeast(p.price, ParseFloat(minPrice))
    /\ ~BoundActive(maxPrice) \/ AtMost(p.price, ParseFloat(maxPrice))

\* C2: the displayed list holds exactly the properties of the full list that
\* satisfy every active predicate at once (query, type, minimum price,
\* maximum price), and a finite minimum above a finite maximum leaves
\* nothing.
C2_ExactlyTheSatisfying ==
    /\ ~renderError
    /\ filteredProperties = SelectSeq(properties, SatisfiesAll)
    /\ ( /\ BoundActive(minPrice) /\ BoundActive(maxPrice)
         /\ ParseFloat(minPrice).kind = "num" /\ ParseFloat(maxPrice).kind = "num"
         /\ ParseFloat(minPrice).val > ParseFloat(maxPrice).val )
       => filteredProperties = <<>>

\* all four predicates are active, one property survives them and another
\* is removed
C2_Witness ==
    /\ Truthy(Trim(searchQuery))
    /\ selectedType # "all"
    /\ BoundActive(minPrice)
    /\ BoundActive(maxPrice)
    /\ filteredProperties # <<>>
    /\ Len(filteredProperties) < Len(properties)

RECURSIVE IsSubsequence(_, _)
IsSubsequence(sub, full) ==
    IF sub = <<>> THEN TRUE
    ELSE IF full = <<>> THEN FALSE
    ELSE IF Head(sub) = Head(full) THEN IsSubsequence(Tail(sub), Tail(full))
    ELSE IsSubsequence(sub, Tail(full))

\* C3: the displayed list is a subsequence of the full list: every shown
\* property is in the full list, none is shown twice, and the shown ones
\* keep their relative order.
C3_Subsequence ==
    /\ IsSubsequence(filteredProperties, properties)
    /\ \A i, j \in 1..Len(filteredProperties) :
           filteredProperties[i].id = filteredProperties[j].id => i = j

\* two properties survive a filter that removes a third
C3_Witness ==
    /\ Len(filteredProperties) >= 2
    /\ Len(filteredProperties) < Len(properties)

\* C4: filtering the displayed list again with the same filter state gives
\* the displayed list.
C4_Idempotent ==
    filterProperties(filteredProperties, searchQuery, selectedType,
                     minPrice, maxPrice) = filteredProperties

\* a filter that removed something and kept something
C4_Witness ==
    /\ filteredProperties # <<>>
    /\ Len(filteredProperties) < Len(properties)
    /\ BoundActive(minPrice)

NoFilterActive ==
    /\ searchQuery = <<>>
    /\ selectedType = "all"
    /\ minPrice = <<>>
    /\ maxPrice = <<>>

\* C5: with an empty query, type 'all' and both price inputs empty, the
\* displayed list is the full list, in the same order.
C5_IdentityWhenInactive ==
    NoFilterActive => filteredProperties = properties

C5_Witness ==
    /\ NoFilterActive
    /\ Len(properties) >= 2
    /\ filteredProperties = properties

\* an input with no numeric prefix: after leading white space it does not
\* start with a digit, a sign, a point or Infinity
Unparseable(input) ==
    LET t == TrimStart(input)
    IN  /\ input # <<>>
        /\ \/ t = <<>>
           \/ /\ Head(t) \notin DigitChars \cup {"+", "-", "."}
              /\ ~StartsWith(t, InfinityLiteral)

\* C6: an unparseable minimum (maximum) price input gives the list that the
\* empty input gives, whatever the other filter fields are, and no error.
C6_UnparseableIgnored ==
    /\ ~renderError
    /\ Unparseable(minPrice) =>
           filteredProperties =
               filterProperties(properties, searchQuery, selectedType, <<>>, maxPrice)
    /\ Unparseable(maxPrice) =>
           filteredProperties =
               filterProperties(properties, searchQuery, selectedType, minPrice, <<>>)

\* an unparseable minimum while another filter removes a property and a
\* property is shown
C6_Witness ==
    /\ Unparseable(minPrice)
    /\ filteredProperties # <<>>
    /\ Len(filteredProperties) < Len(properties)

InList(p, list) == \E i \in 1..Len(list) : list[i] = p

\* C7: with a non-empty query, a property whose description (location) is
\* null is shown only if the query is in one of its other, present fields,
\* and it is shown if the query is in one of them and the other filters
\* admit it; the filter does not fail on it.
C7_AbsentFieldNeverMatches ==
    /\ ~renderError
    /\ Truthy(Trim(searchQuery)) =>
         \A i \in 1..Len(properties) :
            LET p == properties[i]
                viaOthers ==
                    \/ QueryIn(Some(p.title), searchQuery)
                    \/ p.description # None /\ QueryIn(p.description, searchQuery)
                    \/ p.location # None /\ QueryIn(p.location, searchQuery)
            IN  (p.description = None \/ p.location = None) =>
                   /\ InList(p, filteredProperties) => viaOthers
                   /\ ( /\ viaOthers
                        /\ InList(p, filterProperties(<<p>>, <<>>, selectedType,
                                                      minPrice, maxPrice)) )
                      => InList(p, filteredProperties)

\* a query is active, a property without description is dropped by it and
\* another property without description or location is shown
C7_Witness ==
    /\ Truthy(Trim(searchQuery))
    /\ \E i \in 1..Len(properties) :
          /\ properties[i].description = None
          /\ ~InList(properties[i], filteredProperties)
    /\ \E i \in 1..Len(filteredProperties) :
          \/ filteredProperties[i].description = None
          \/ filteredProperties[i].location = None

-----------------------------------------------------------------------------
(* Properties of the Home view's favorites, checked under Spec             *)

Toggles == {"add", "remove"}

\* the handler of r goes past its await in this step
Returns(r) ==
    /\ r \in InFlight /\ r.stage = "replied"
    /\ CopiesIn(r, requests') < CopiesIn(r, requests)

\* the handler makes the call r in this step
Calls(r) ==
    /\ r.stage = "sent"
    /\ CopiesIn(r, requests') > CopiesIn(r, requests)

\* the service function of the call r runs in this step
Runs(r) ==
    /\ r \in InFlight /\ r.stage = "sent"
    /\ CopiesIn(r, requests') < CopiesIn(r, requests)

\* C1: toggleFavorite changes favoritePropertyIds only in the step in which
\* it resumes after a remote call that returned success: the call itself
\* and the running of the remote call change nothing, and resuming after an
\* error value or a rejection leaves the list exactly as it was (a failed
\* remove leaves the id in, a failed add leaves it out).
C1_ChangeOnlyAfterSuccess ==
    [][ /\ \A r \in InFlight :
              (r.kind \in Toggles /\ Returns(r) /\ r.result # "ok")
                  => favoritePropertyIds' = favoritePropertyIds
        /\ (\E r \in BagToSet(requests') : r.kind \in Toggles /\ Calls(r))
              => favoritePropertyIds' = favoritePropertyIds
        /\ \A r \in InFlight :
              (r.kind \in Toggles /\ Runs(r))
                  => favoritePropertyIds' = favoritePropertyIds
        /\ favoritePropertyIds' # favoritePropertyIds
              => \E r \in InFlight : Returns(r) /\ r.result = "ok"
      ]_vars

\* a remove has just come back with an error and the id is still in the list
C1_Witness ==
    /\ last.kind = "remove"
    /\ last.result = "error"
    /\ last.id \in SeqToSet(favoritePropertyIds)

\* C8: when a property is toggled twice in sequence, each toggle awaited,
\* both remote calls succeeding and nothing else of the view in flight, the
\* set of favorited ids after the second toggle is the set before the first.
C8_ToggleTwiceRestores ==
    pair.phase = 4 => SeqToSet(favoritePropertyIds) = pair.before

\* the round trip add-then-remove of a property, from a set holding another
C8_Witness ==
    /\ pair.phase = 4
    /\ pair.before # {}
    /\ pair.id \notin pair.before

\* C9: getUserFavorites returns the empty list, as a value, when no user is
\* authenticated (and then no query was sent) and when the store answered
\* with an error; and no exception escapes the view's load.
C9_LoadNeverFails ==
    /\ ~unhandled
    /\ \A r \in InFlight :
          (r.kind = "list" /\ r.stage = "replied") =>
              /\ (user = None /\ r.message # GetUserRejected)
                    => r.result = "ok" /\ r.value = <<>> /\ ~r.queried
              /\ r.failed => r.result = "ok" /\ r.value = <<>>

\* a load has just completed after the store answered with an error, while
\* the user has favorites: the list is empty and nothing was raised
C9_Witness ==
    /\ last.kind = "list"
    /\ last.failed
    /\ favRows # <<>>
    /\ favoritePropertyIds = <<>>
    /\ ~unhandled

-----------------------------------------------------------------------------
(* Properties of the favorites-listing view, checked under SpecSearch      *)

\* the entry of a returned list is a row, not the null of a missing one
IsRow(v) == v # None

\* C10: when getUserFavoriteProperties gets the answer of the store, it
\* returns, without an error, one entry for every favorite whose property
\* exists, each the full row of that property, and nothing for a favorite
\* whose property is missing; a property that was favorited when the load
\* was called and still is, is among them.
C10_ExistingFavoritesInFull ==
    [][ \A r \in InFlight, r2 \in BagToSet(requests') :
            ( /\ r.kind = "favprops" /\ Runs(r)
              /\ r2.stage = "replied"
              /\ CopiesIn(r2, requests') > CopiesIn(r2, requests)
              /\ r2.queried /\ ~r2.failed )
            => /\ r2.result = "ok"
               /\ \A i \in 1..Len(r2.value) : IsRow(r2.value[i])
               /\ \A i \in 1..Len(r2.value) :
                     /\ r2.value[i].id \in SeqToSet(favRows) \cap propRows
                     /\ r2.value[i] = Catalogue[r2.value[i].id]
               /\ \A id \in SeqToSet(favRows) \cap propRows :
                     Cardinality({i \in 1..Len(r2.value) : r2.value[i].id = id}) = 1
               /\ \A id \in r.seen \cap SeqToSet(favRows) \cap propRows :
                     \E i \in 1..Len(r2.value) : r2.value[i].id = id
      ]_vars

\* a load has returned the row of a property that was favorited before the
\* load was called, and has left out a favorite whose property is gone
C10_Witness ==
    \E r \in InFlight :
        /\ r.kind = "favprops" /\ r.stage = "replied"
        /\ r.result = "ok" /\ r.queried /\ ~r.failed
        /\ \E i \in 1..Len(r.value) : r.value[i].id \in r.seen
        /\ \E id \in SeqToSet(favRows) \ propRows :
              \A i \in 1..Len(r.value) : r.value[i].id # id

-----------------------------------------------------------------------------
(* Properties of the favorites service without a user, checked under       *)
(* SpecSession                                                             *)

\* the reply r2 is put in place of a running call in this step
RepliedNow(r2) ==
    /\ r2.stage = "replied"
    /\ CopiesIn(r2, requests') > CopiesIn(r2, requests)

\* C11: when getUser() yields no user, addToFavorites and removeFromFavorites
\* return the error value 'User not authenticated' (they do not throw), send
\* no insert or delete, and the user's favorites rows are as before; nothing
\* escapes the handler.
C11_NoUserIsAnErrorValue ==
    [][ /\ ~unhandled'
        /\ \A r \in InFlight, r2 \in BagToSet(requests') :
              ( /\ r.kind \in Toggles /\ Runs(r) /\ RepliedNow(r2)
                /\ user = None /\ r2.message # GetUserRejected )
              => /\ r2.result = "error"
                 /\ r2.message = NoUserError
                 /\ ~r2.queried
                 /\ favRows' = favRows
      ]_vars

\* a remove of a favorited property has been answered 'User not
\* authenticated' and its row is still in the store
C11_Witness ==
    \E r \in InFlight :
        /\ r.kind = "remove" /\ r.stage = "replied"
        /\ r.message = NoUserError
        /\ user = None
        /\ r.id \in SeqToSet(favRows)

-----------------------------------------------------------------------------
(* Properties of the favorites-listing view's removal, checked under       *)
(* SpecRemove                                                              *)

\* C12: a remove request is sent only in the step in which the dialog that
\* is open for that property is closed by 'Remove'; a step that closes the
\* dialog and sends nothing ('Cancel') leaves the favorites list, the photo
\* map and the calls in flight as they were.
C12_RemoveOnlyAfterConfirm ==
    [][ /\ \A r \in BagToSet(requests') :
              (r.kind = "remove" /\ Calls(r))
                  => alert = Some(r.id) /\ alert' = None
        /\ (alert # None /\ alert' = None /\ requests' = requests)
              => /\ favoriteProperties' = favoriteProperties
                 /\ propertyPhotos' = propertyPhotos
      ]_vars

\* the removal of a listed property is on its way and the dialog is closed
C12_Witness ==
    /\ alert = None
    /\ \E r \in InFlight :
          /\ r.kind = "remove" /\ r.stage = "sent"
          /\ r.id \in IdSet(favoriteProperties)
          /\ r.id \in DOMAIN propertyPhotos

\* C13: when the handler of a confirmed removal of X resumes: after success
\* the list is the list before without X, in order, and the photo map is the
\* map before without the key X, every other entry kept; after an error
\* value or a rejection both are exactly as before.
C13_RemoveAppliedOrRolledBack ==
    [][ \A r \in InFlight :
            (r.kind = "remove" /\ Returns(r)) =>
                IF r.result = "ok"
                THEN /\ Ids(favoriteProperties') =
                            SelectSeq(Ids(favoriteProperties), LAMBDA y : y # r.id)
                     /\ \A i \in 1..Len(favoriteProperties') :
                            InList(favoriteProperties'[i], favoriteProperties)
                     /\ DOMAIN propertyPhotos' = (DOMAIN propertyPhotos) \ {r.id}
                     /\ \A x \in DOMAIN propertyPhotos' :
                            propertyPhotos'[x] = propertyPhotos[x]
                ELSE /\ favoriteProperties' = favoriteProperties
                     /\ propertyPhotos' = propertyPhotos
      ]_vars

\* a removal has just succeeded: the property and its photos are gone from
\* the view and another property is still listed with its photos
C13_Witness ==
    /\ last.kind = "remove" /\ last.result = "ok"
    /\ last.id \notin IdSet(favoriteProperties)
    /\ last.id \notin DOMAIN propertyPhotos
    /\ \E x \in DOMAIN propertyPhotos :
          x \in IdSet(favoriteProperties) /\ propertyPhotos[x] # <<>>

-----------------------------------------------------------------------------
(* Properties of the loads of the listing views, checked under SpecViews   *)

\* C14: in every listing view, a load in which the photo fetch of some
\* property failed still ends by publishing its photo map: the map has an
\* entry for every property of the list, the empty sequence for a property
\* whose fetch failed and what its own fetch returned for every other.
C14_PhotoFailureIsLocal ==
    (last.kind = "load" /\ last.failed) =>
        /\ last.result = "published"
        /\ DOMAIN propertyPhotos = IdSet(last.load.list)
        /\ \A id \in last.load.failed : propertyPhotos[id] = <<>>
        /\ \A id \in DOMAIN last.load.fetched :
              propertyPhotos[id] = last.load.fetched[id]

\* the property list the view shows
ViewList == IF view = "search" THEN favoriteProperties ELSE properties

NoIdTwice(list) ==
    \A i, j \in 1..Len(list) : list[i].id = list[j].id => i = j

\* C15: when a load that overlapped with another load of the view publishes
\* its photo map and no load of the view is left in flight, the list shown is
\* the list that load fetched, the photo map is the one it built, and no
\* property is in the list twice.
C15_LastLoadWins ==
    ( /\ last.kind = "load" /\ last.result = "published"
      /\ last.load.overlap
      /\ loads = EmptyBag )
    => /\ ViewList = last.load.list
       /\ propertyPhotos = last.load.photosMap
       /\ NoIdTwice(ViewList)

\* C16: once the view is unmounted, no step sets its state: the results of
\* the fetches still in flight (list, photos, favorite ids) are not applied.
C16_NothingAppliedAfterUnmount ==
    [][ ~mounted =>
            UNCHANGED <<properties, filteredProperties, favoriteProperties,
                        propertyPhotos, favoritePropertyIds>>
      ]_vars

-----------------------------------------------------------------------------
(* Properties of the resync of the favorites, checked under SpecResync     *)

\* C17: once the favorites have stopped changing, a resync made after that
\* has been applied and no call is left in flight, the Home view's favorited
\* ids are the user's favorites in the store (and, nothing being left to
\* change them, stay so), also when a resync made earlier was in flight.
C17_ResyncConverges ==
    ( /\ sync.stopped /\ sync.resynced
      /\ requests = EmptyBag )
    => SeqToSet(favoritePropertyIds) = SeqToSet(favRows)

-----------------------------------------------------------------------------
(* Properties of the filter's inputs, checked under SpecFilter             *)

\* C18: the query is trimmed before matching: the displayed list is the one
\* the filter gives for the query without its leading and trailing white
\* space.
C18_QueryTrimmedBeforeMatching ==
    filteredProperties =
        filterProperties(properties, Trim(searchQuery), selectedType,
                         minPrice, maxPrice)

\* the input is present and parses to a finite number
FiniteBound(input) == input # <<>> /\ ParseFloat(input).kind = "num"

\* C19: a price bound whose input is empty, not a number, or parses to an
\* infinite value removes no property: the displayed list is the one the
\* filter gives with that bound left empty.
C19_OnlyFiniteBoundsApply ==
    /\ ~FiniteBound(minPrice) =>
          filteredProperties =
              filterProperties(properties, searchQuery, selectedType,
                               <<>>, maxPrice)
    /\ ~FiniteBound(maxPrice) =>
          filteredProperties =
              filterProperties(properties, searchQuery, selectedType,
                               minPrice, <<>>)

\* the filters a caller hands to searchProperties for the state of the
\* filter: no type for 'all', and for a bound the number its input parses
\* to, none when the input is empty or not a number
ServerFilters ==
    [type     |-> IF selectedType = "all" THEN None ELSE Some(selectedType),
     minPrice |-> IF BoundActive(minPrice) THEN Some(ParseFloat(minPrice)) ELSE None,
     maxPrice |-> IF BoundActive(maxPrice) THEN Some(ParseFloat(maxPrice)) ELSE None,
     location |-> None]

\* C20: over the rows that getAllProperties returned, searchProperties with
\* the query, type and price bounds of the filter returns the displayed
\* list: the same properties in the same order, a bound of 0 and a query of
\* white space included.
C20_ServerSearchIsTheFilter ==
    searchProperties(properties, searchQuery, ServerFilters) = filteredProperties

-----------------------------------------------------------------------------
(* Properties of the Home view, checked under SpecHome                     *)

\* the state of the filter, as typed
FilterState == <<searchQuery, selectedType, minPrice, maxPrice>>

\* C21: a step in which the Home view's resync of the favorite ids is called
\* (the focus effect) sends that one call and nothing else: no load of the
\* list or the photos starts, and the property list, the photo map, the
\* filter state and the displayed list are as before; the step in which the
\* resync is applied changes nothing but the favorite ids.
C21_FocusOnlyResyncs ==
    [][ /\ (\E r \in BagToSet(requests') : r.kind = "list" /\ Calls(r))
              => /\ BagCardinality(requests') = BagCardinality(requests) + 1
                 /\ loads' = loads
                 /\ UNCHANGED <<properties, filteredProperties, propertyPhotos,
                                FilterState, favoritePropertyIds>>
        /\ \A r \in InFlight :
              (r.kind = "list" /\ Returns(r))
                  => /\ loads' = loads
                     /\ UNCHANGED <<properties, filteredProperties,
                                    propertyPhotos, FilterState>>
      ]_vars

\* the resync of a focus has just been applied over a loaded, filtered
\* listing: the favorite ids changed, the rest is in place
C21_Witness ==
    /\ last.kind = "list" /\ last.result = "ok"
    /\ favoritePropertyIds # <<>>
    /\ properties # <<>>
    /\ DOMAIN propertyPhotos # {}
    /\ searchQuery # <<>>
    /\ loads = EmptyBag

-----------------------------------------------------------------------------
(* Properties of the order of a load's fetches, checked under SpecViews    *)

\* the properties of the load's list whose photo fetch has been answered
Answered(l) == (DOMAIN l.fetched) \cup l.failed

\* what a load that has just published its photo map published: an entry
\* for every property of its list, holding what the property's own fetch
\* returned, or nothing where the fetch failed
PublishedWhatWasFetched ==
    (last.kind = "load" /\ last.result = "published") =>
        /\ propertyPhotos = last.load.photosMap
        /\ DOMAIN propertyPhotos = IdSet(last.load.list)
        /\ \A id \in DOMAIN last.load.fetched :
              propertyPhotos[id] = last.load.fetched[id]
        /\ \A id \in last.load.failed : propertyPhotos[id] = <<>>

\* C22 as stated: within a load, no photo fetch is in flight before the
\* listing query has answered; after it, the photo fetches of all the
\* properties of the list that are not answered yet are in flight together;
\* and the photo map published holds each property's own result.
C22_PhotoFetchesConcurrent ==
    /\ \A l \in LoadsInFlight :
          /\ l.stage = "list" => PhotoFetchesInFlight(l) = {}
          /\ l.stage = "photos" =>
                PhotoFetchesInFlight(l) = IdSet(l.list) \ Answered(l)
    /\ PublishedWhatWasFetched

\* C22 amended: within a load, no photo fetch is in flight before the
\* listing query has answered; after it, the photo fetches are made one at
\* a time in the order of the list, each answered before the next is made;
\* and the photo map a load publishes holds each property's own result.
C22_PhotoFetchesInTurn ==
    /\ \A l \in LoadsInFlight :
          /\ l.stage = "list" =>
                PhotoFetchesInFlight(l) = {} /\ Answered(l) = {}
          /\ l.stage = "photos" =>
                /\ Answered(l) = {l.list[i].id : i \in 1..(l.k - 1)}
                /\ PhotoFetchesInFlight(l) = {l.list[l.k].id}
    /\ PublishedWhatWasFetched

\* a load of two properties has just published the photos of both, fetched
\* one after the other
C22_Witness ==
    /\ last.kind = "load" /\ last.result = "published"
    /\ Len(last.load.list) = 2
    /\ DOMAIN last.load.fetched = IdSet(last.load.list)
    /\ \A id \in IdSet(last.load.list) : propertyPhotos[id] = PhotoTable[id]

-----------------------------------------------------------------------------
(* Properties of a failed listing query, checked under SpecViews           *)

\* the load ended while it awaited its listing query: the query failed
ListFetchFailed(l) == l.stage = "list"

\* C23: in a view that lists with getAllProperties or getPropertiesByUser, a
\* load whose listing query failed in the store gets the empty list from the
\* read and goes on as after any answer: it publishes the empty list and
\* the empty photo map, and raises nothing.
C23_ListFailureGivesEmptyList ==
    ( /\ view # "search"
      /\ last.kind = "load" /\ ListFetchFailed(last.load) )
    => /\ last.result = "published"
       /\ properties = <<>>
       /\ propertyPhotos = <<>>
       /\ ~unhandled

-----------------------------------------------------------------------------
(* Properties of the map view's markers, checked under SpecMap             *)

\* the ids of the properties of the list that have a latitude and a
\* longitude, whatever their values, in order
BothCoordinates(list) ==
    LET both == SelectSeq(list, LAMBDA p : /\ p.latitude # None
                                           /\ p.longitude # None)
    IN  [i \in 1..Len(both) |-> both[i].id]

\* C25: when the map view's load has handed its list to
\* updatePropertyMarkers in a page that is ready, the markers are those of
\* exactly the properties that have both a latitude and a longitude, a
\* coordinate of 0 included; a property with one coordinate or none has no
\* marker and keeps no other property from having one.
C25_MarkerIffBothCoordinates ==
    ( /\ view = "map" /\ mounted /\ mapReady
      /\ last.kind = "load" /\ last.result = "published"
      /\ last.load.list # <<>> )
    => markers = BothCoordinates(last.load.list)

\* C29: once the page is ready and no load is in flight, the markers on the
\* map are those updatePropertyMarkers makes for the property list loaded
\* last, whichever of the load and the page was ready first, and none when
\* that list is empty.
C29_MarkersFollowLoads ==
    (mounted /\ mapReady /\ loads = EmptyBag)
        => markers = updatePropertyMarkers(properties)

-----------------------------------------------------------------------------
(* Properties of the Home view's favorite ids under its own toggles and    *)
(* resyncs, checked under SpecOwn                                          *)

\* C26: whatever the order of the toggles, the resyncs and their answers,
\* favoritePropertyIds never holds a property id twice.
C26_NoIdTwice ==
    \A i, j \in 1..Len(favoritePropertyIds) :
        favoritePropertyIds[i] = favoritePropertyIds[j] => i = j

\* C27: when the favorites change through the view's own toggles only and
\* every call succeeds, then in every state with no add, remove or resync in
\* flight the ids of favoritePropertyIds are the user's favorites in the
\* store.
C27_QuiescentViewIsTheStore ==
    requests = EmptyBag
        => SeqToSet(favoritePropertyIds) = SeqToSet(favRows)

-----------------------------------------------------------------------------
(* Properties of the favorites-listing view's photo map, checked under     *)
(* SpecRemove                                                              *)

\* C28: on the favorites-listing view, in every state with no load and no
\* remove in flight, every key of the photo map is the id of a property of
\* the displayed list; also when a confirmed remove has completed while a
\* load started before it was fetching photos.
C28_NoOrphanedPhotos ==
    (loads = EmptyBag /\ requests = EmptyBag)
        => DOMAIN propertyPhotos \subseteq IdSet(favoriteProperties)

-----------------------------------------------------------------------------
(* Properties of the detail modal's carousel, checked under SpecModal      *)

\* the modal shows a property whose entry in the photo map is not empty
ModalShowsPhotos ==
    /\ selectedProperty # None
    /\ PhotosOf(selectedProperty[1]) # <<>>

\* the index is an integer that names a photo of the entry
IndexInRange ==
    /\ currentImageIndex.kind = "num"
    /\ 0 <= currentImageIndex.val
    /\ currentImageIndex.val < Len(PhotosOf(selectedProperty[1]))

\* C30: after every step (opening and closing the modal, nextImage,
\* prevImage, a load replacing the photo map), if the modal shows a property
\* whose entry in the photo map is not empty, currentImageIndex is an integer
\* from 0 to the number of photos less one; nextImage goes to the next photo
\* and from the last to the first, prevImage to the one before and from the
\* first to the last.
C30_IndexNamesAPhoto ==
    [][ /\ ModalShowsPhotos' => IndexInRange'
        /\ (last'.kind = "next" /\ IndexInRange) =>
              currentImageIndex' =
                  Num(IF currentImageIndex.val + 1 = Len(PhotosOf(selectedProperty[1]))
                      THEN 0 ELSE currentImageIndex.val + 1)
        /\ (last'.kind = "prev" /\ IndexInRange) =>
              currentImageIndex' =
                  Num(IF currentImageIndex.val = 0
                      THEN Len(PhotosOf(selectedProperty[1])) - 1
                      ELSE currentImageIndex.val - 1)
      ]_vars

=============================================================================
